---- MODULE Spec2Model ----
(***************************************************************************)
(* Model of PeerNetwork (src/src/utils/peerNetwork.js, the first class of  *)
(* the file, lines 1-780): the device's endpoint, the connections map, the *)
(* joinRoom retry sequence with its timers and promise chain, the room     *)
(* role, and the send helpers.  The transport library (PeerJS) is the      *)
(* environment: it fires 'open', 'error' and 'close' on connection        *)
(* handles, offers inbound connections, and reports the endpoint          *)
(* disconnected.                                                           *)
(***************************************************************************)
EXTENDS Integers, Sequences, FiniteSets, TLC

\* ---------------------------------------------------------------- constants

\* peerNetwork.js:11 (only the timer's existence matters, not its length)
CONNECTION_TIMEOUT_MS == 45000
\* peerNetwork.js:14
MAX_RETRY_ATTEMPTS == 3
\* peerNetwork.js:17
RETRY_BASE_DELAY_MS == 2000

\* How many inbound connections the environment offers in one behaviour.
MaxInbound == 2
\* How many media calls (made and received) exist in one behaviour.
MaxCalls == 2
\* How many streams getUserMedia() hands out in one behaviour.
MaxStreams == 2
\* How many endpoints one init() chain may create before the model stops it.
MaxCreations == 3

\* ---------------------------------------------------------------- identifiers

\* `device-${uuidv4().slice(0, 8)}` (peerNetwork.js:42): the prefix, the number of
\* uuid characters kept, and the uuid they are cut from.
DeviceIdOf(u) == [prefix |-> "device", len |-> 8, uuid |-> u]
\* `room-${uuidv4().slice(0, 6)}` (peerNetwork.js:176)
RoomIdOf(u) == [prefix |-> "room", len |-> 6, uuid |-> u]
\* null
NoId == [prefix |-> "null", len |-> 0, uuid |-> "null"]

\* The uuids uuidv4() can return in the model.
Uuids == {"u1", "u2"}
\* The id this device finds in localStorage, and the remote devices' ids.
OwnUuid == "u1"
RemotePeers == {DeviceIdOf("u2"), DeviceIdOf("u3")}

\* Connection handles: those peer.connect() returns to joinRoom, and those the
\* endpoint's 'connection' event offers.  One more outbound handle than
\* MAX_RETRY_ATTEMPTS exists so that an attempt too many would be seen.
OutHandles == 1..(MAX_RETRY_ATTEMPTS + 1)
InHandles == (MAX_RETRY_ATTEMPTS + 2)..(MAX_RETRY_ATTEMPTS + 1 + MaxInbound)
Handles == OutHandles \cup InHandles
NoHandle == 0
\* The first handle the 'connection' event offers.
FirstInHandle == MAX_RETRY_ATTEMPTS + 2

Attempts == 1..(MAX_RETRY_ATTEMPTS + 1)

\* Media calls: those peer.call() returns and those the 'call' event offers.
CallIds == 1..MaxCalls
NoCall == 0
\* The streams getUserMedia() resolves with; null.
Streams == 1..MaxStreams
NoStream == 0
\* A stream the caller passes to startVideoStream(existingStream).
CameraStream == MaxStreams + 1
\* call.metadata.type === 'video' or not
Kinds == {"audio", "video"}
\* The init() calls of one chain: the caller's and the retries'.
InitCalls == 1..MaxCreations
\* The events and callbacks the application gives to on() and off().
BusEvents == {"chat-message", "peer-connected"}
Callbacks == {"cb1", "cb2", "cb3"}

VARIABLES
    peer,          \* this.peer: "null" | "opening" | "ready" | "disconnected" | "destroyed"
    deviceId,      \* this.deviceId
    isHost,        \* this.isHost
    roomId,        \* this.roomId
    connections,   \* this.connections: peerId -> handle (NoHandle: no entry)
    handles,       \* the transport's connection handles and the listeners on them
    joinHost,      \* hostId of the joinRoom sequence (NoId: joinRoom not called)
    attempt,       \* attempt number of the latest joinRoom(hostId, attempt) body run
    timer,         \* the pending setTimeout of the sequence: "none" | "attempt" | "backoff"
    promise,       \* promise[k]: the promise returned by joinRoom(hostId, k)
    connectCalls,  \* history: number of peer.connect() calls
    delays,        \* history: the delays given to the backoff setTimeout
    progress,      \* history: the connection-progress events emitted
    everOpened,    \* history: 'open' fired on a handle of the sequence
    everErrored,   \* history: 'error' fired on a handle of the sequence
    lastOp,        \* the operation or callback that ran last
    lastSent,      \* the conn.send() calls it made, in order
    lastEmit,      \* the events it emitted, in order
    localAudioStream,  \* this.localAudioStream (NoStream: null)
    localVideoStream,  \* this.localVideoStream (NoStream: null)
    isStreamingVideo,  \* this.isStreamingVideo
    mediaConnections,  \* this.mediaConnections: peerId -> call (NoCall: no entry)
    videoConnections,  \* this.videoConnections: peerId -> call (NoCall: no entry)
    calls,         \* the transport's media calls and the listeners on them
    acquiring,     \* the getUserMedia() requests awaited: kind -> BOOLEAN
    liveStreams,   \* the acquired streams whose tracks have not been stopped
    storage,       \* localStorage['drone-tracker-device-id']
    creations,     \* history: new Peer() calls made by init() and its retries
    initPromise,   \* initPromise[k]: the promise returned by the k-th init() of the chain
    lateOpens,     \* the handles whose 'open' reached handleConnection's listener once more
    listeners,     \* this.listeners: event -> the callbacks of its Set, in insertion order
    callbacksRun,  \* the callbacks the latest step of the event bus ran, in order
    unsubscribers  \* the functions on() has returned: <<event, callback>>

netVars == <<peer, deviceId, isHost, roomId, connections, handles>>
joinVars == <<joinHost, attempt, timer, promise>>
histVars == <<connectCalls, delays, progress, everOpened, everErrored>>
obsVars == <<lastOp, lastSent, lastEmit>>
mediaVars == <<localAudioStream, localVideoStream, isStreamingVideo,
               mediaConnections, videoConnections, calls, acquiring, liveStreams>>
initVars == <<storage, creations, initPromise>>
busVars == <<listeners, callbacksRun, unsubscribers>>
vars == <<netVars, joinVars, histVars, obsVars, mediaVars, initVars, lateOpens, busVars>>

\* ---------------------------------------------------------------- helpers

RECURSIVE Pow2(_)
Pow2(n) == IF n <= 0 THEN 1 ELSE 2 * Pow2(n - 1)

\* A handle nobody has been given yet.
FreeHandle == [kind |-> "none", peerId |-> NoId, att |-> 0, st |-> "none",
               reg |-> FALSE, setup |-> FALSE]

\* A call nobody has been given yet.
FreeCall == [kind |-> "none", dir |-> "none", peerId |-> NoId, st |-> "none"]

\* conn.open
IsOpen(h) == handles[h].st = "open"

Event(name, data) == [ev |-> name, data |-> data]

ProgressEvent(status, att) ==
    Event("connection-progress", [status |-> status, attempt |-> att])

IsProgress(e) == e.ev = "connection-progress"

\* What every step records: the operation, its sends and its events; the
\* connection-progress events are also appended to the history.
Observe(op, sent, emitted) ==
    /\ lastOp' = op
    /\ lastSent' = sent
    /\ lastEmit' = emitted
    /\ progress' = progress \o SelectSeq(emitted, IsProgress)

\* The operation that ran, its argument and what it returned.
OpRet(name, arg, ret) == [name |-> name, arg |-> arg, ret |-> ret]
Op(name, arg) == OpRet(name, arg, NoId)

\* ---------------------------------------------------------------- promises

\* resolve()/reject() of the promise joinRoom(hostId, k) returned: the first
\* settlement wins, and `.then(resolve).catch(reject)` (peerNetwork.js:234) hands
\* the settlement of attempt k's promise to the promise of attempt k-1.
RECURSIVE Settle(_, _, _)
Settle(pr, k, outcome) ==
    IF pr[k] # "pending" THEN pr
    ELSE LET settled == [pr EXCEPT ![k] = outcome]
         IN  IF k = 1 THEN settled ELSE Settle(settled, k - 1, outcome)

\* clearTimeout(connectionTimeout) in the listeners of attempt att's handle: it
\* cancels that attempt's timer only, and only while it is still pending.
ClearAttemptTimer(att) ==
    IF timer = "attempt" /\ attempt = att THEN "none" ELSE timer

\* peer.connect(hostId, ...) returns a handle unless the endpoint is disconnected.
ConnectReturnsHandle == peer # "disconnected"

\* ---------------------------------------------------------------- Init

Init ==
    /\ peer = "null"
    /\ deviceId = DeviceIdOf(OwnUuid)
    /\ isHost = FALSE
    /\ roomId = NoId
    /\ connections = [p \in RemotePeers |-> NoHandle]
    /\ handles = [h \in Handles |-> FreeHandle]
    /\ joinHost = NoId
    /\ attempt = 0
    /\ timer = "none"
    /\ promise = [k \in Attempts |-> "none"]
    /\ connectCalls = 0
    /\ delays = <<>>
    /\ progress = <<>>
    /\ everOpened = FALSE
    /\ everErrored = FALSE
    /\ lastOp = Op("constructor", NoId)
    /\ lastSent = <<>>
    /\ lastEmit = <<>>
    /\ localAudioStream = NoStream
    /\ localVideoStream = NoStream
    /\ isStreamingVideo = FALSE
    /\ mediaConnections = [p \in RemotePeers |-> NoCall]
    /\ videoConnections = [p \in RemotePeers |-> NoCall]
    /\ calls = [c \in CallIds |-> FreeCall]
    /\ acquiring = [k \in Kinds |-> FALSE]
    /\ liveStreams = {}
    /\ storage = DeviceIdOf(OwnUuid)
    /\ creations = 0
    /\ initPromise = [k \in InitCalls |-> "none"]
    /\ lateOpens = {}
    /\ listeners = [e \in BusEvents |-> <<>>]
    /\ callbacksRun = <<>>
    /\ unsubscribers = {}

\* ---------------------------------------------------------------- endpoint

\* init(): new Peer(deviceId, ...) and its 'open' event.
InitPeer ==
    /\ peer \in {"null", "destroyed"}
    /\ peer' = "ready"
    /\ Observe(Op("init", deviceId), <<>>, <<Event("connected", [deviceId |-> deviceId])>>)
    /\ UNCHANGED <<deviceId, isHost, roomId, connections, handles>>
    /\ UNCHANGED joinVars
    /\ UNCHANGED <<connectCalls, delays, everOpened, everErrored>>
    /\ UNCHANGED <<mediaVars, initVars, lateOpens, busVars>>

\* The endpoint's 'disconnected' listener: emit, then peer.reconnect().  The
\* transport reports the endpoint disconnected until the reconnection it starts
\* here reaches the server (PeerReconnected, which may follow at once).
PeerDisconnected ==
    /\ peer = "ready"
    /\ peer' = "disconnected"
    /\ Observe(Op("peer-disconnected-event", NoId), <<>>, <<Event("disconnected", NoId)>>)
    /\ UNCHANGED <<deviceId, isHost, roomId, connections, handles>>
    /\ UNCHANGED joinVars
    /\ UNCHANGED <<connectCalls, delays, everOpened, everErrored>>
    /\ UNCHANGED <<mediaVars, initVars, lateOpens, busVars>>

\* The reconnect() started by the 'disconnected' listener has reached the server.
PeerReconnected ==
    /\ peer = "disconnected"
    /\ peer' = "ready"
    /\ Observe(Op("peer-open-event", deviceId), <<>>, <<Event("connected", [deviceId |-> deviceId])>>)
    /\ UNCHANGED <<deviceId, isHost, roomId, connections, handles>>
    /\ UNCHANGED joinVars
    /\ UNCHANGED <<connectCalls, delays, everOpened, everErrored>>
    /\ UNCHANGED <<mediaVars, initVars, lateOpens, busVars>>

\* ---------------------------------------------------------------- device id

\* getOrCreateDeviceId(): localStorage holds `stored` (NoId: getItem returns
\* null), uuidv4() returns u.  The result is also what localStorage holds after.
GetOrCreateDeviceId(stored, u) == IF stored = NoId THEN DeviceIdOf(u) ELSE stored

\* The page is loaded again and the module builds a new PeerNetwork: every field
\* is as the constructor sets it, with the device id taken from localStorage,
\* which outlives the page unless the site's data was cleared meanwhile.
Restart(cleared, u) ==
    LET stored == IF cleared THEN NoId ELSE storage
        id == GetOrCreateDeviceId(stored, u)
    IN
    /\ deviceId' = id
    /\ storage' = id
    /\ peer' = "null"
    /\ isHost' = FALSE
    /\ roomId' = NoId
    /\ connections' = [p \in RemotePeers |-> NoHandle]
    /\ handles' = [h \in Handles |-> FreeHandle]
    /\ joinHost' = NoId
    /\ attempt' = 0
    /\ timer' = "none"
    /\ promise' = [k \in Attempts |-> "none"]
    /\ connectCalls' = 0
    /\ delays' = <<>>
    /\ progress' = <<>>
    /\ everOpened' = FALSE
    /\ everErrored' = FALSE
    /\ lastOp' = OpRet("constructor", stored, id)
    /\ lastSent' = <<>>
    /\ lastEmit' = <<>>
    /\ localAudioStream' = NoStream
    /\ localVideoStream' = NoStream
    /\ isStreamingVideo' = FALSE
    /\ mediaConnections' = [p \in RemotePeers |-> NoCall]
    /\ videoConnections' = [p \in RemotePeers |-> NoCall]
    /\ calls' = [c \in CallIds |-> FreeCall]
    /\ acquiring' = [k \in Kinds |-> FALSE]
    /\ liveStreams' = {}
    /\ creations' = 0
    /\ initPromise' = [k \in InitCalls |-> "none"]
    /\ lateOpens' = {}
    /\ listeners' = [e \in BusEvents |-> <<>>]
    /\ callbacksRun' = <<>>
    /\ unsubscribers' = {}

\* ---------------------------------------------------------------- init chain

\* The outcome an init() promise takes when the endpoint of the k-th init() of
\* the chain settles: each retry's promise is chained to its caller's
\* (this.init().then(resolve).catch(reject)), so every pending one follows.
SettleInit(outcome) ==
    [k \in InitCalls |-> IF initPromise[k] = "pending" THEN outcome ELSE initPromise[k]]

\* init() called by the application: new Peer(this.deviceId, ...) and the
\* registration of the listeners; the endpoint has not answered yet.
InitCall ==
    /\ peer \in {"null", "destroyed"}
    /\ peer' = "opening"
    /\ creations' = 1
    /\ initPromise' = [k \in InitCalls |-> IF k = 1 THEN "pending" ELSE "none"]
    /\ Observe(OpRet("init-call", deviceId, 1), <<>>, <<>>)
    /\ UNCHANGED <<deviceId, isHost, roomId, connections, handles>>
    /\ UNCHANGED joinVars
    /\ UNCHANGED <<connectCalls, delays, everOpened, everErrored>>
    /\ UNCHANGED <<mediaVars, lateOpens, busVars, storage>>

\* The endpoint's 'open' listener: emit 'connected' and resolve.
EndpointOpen ==
    /\ peer = "opening"
    /\ peer' = "ready"
    /\ initPromise' = SettleInit("resolved")
    /\ Observe(OpRet("endpoint-open", deviceId, creations), <<>>,
               <<Event("connected", [deviceId |-> deviceId])>>)
    /\ UNCHANGED <<deviceId, isHost, roomId, connections, handles>>
    /\ UNCHANGED joinVars
    /\ UNCHANGED <<connectCalls, delays, everOpened, everErrored>>
    /\ UNCHANGED <<mediaVars, lateOpens, busVars, storage, creations>>

\* EndpointUnavailableId without the localStorage.setItem.
EndpointUnavailableIdUnsaved(u) ==
    /\ peer = "opening"
    /\ creations < MaxCreations
    /\ deviceId' = DeviceIdOf(u)
    /\ creations' = creations + 1
    /\ initPromise' = [initPromise EXCEPT ![creations + 1] = "pending"]
    /\ peer' = "opening"
    /\ Observe(OpRet("endpoint-unavailable-id", deviceId, creations), <<>>,
               <<Event("error", [type |-> "unavailable-id"])>>)
    /\ UNCHANGED <<isHost, roomId, connections, handles>>
    /\ UNCHANGED joinVars
    /\ UNCHANGED <<connectCalls, delays, everOpened, everErrored>>
    /\ UNCHANGED <<mediaVars, lateOpens, busVars, storage>>

\* The endpoint's 'error' listener, err.type === 'unavailable-id': emit 'error',
\* take a new device id, store it, and call init() again, whose promise settles
\* this one.  The retry is made whatever the number of collisions before it.
EndpointUnavailableId(u) ==
    /\ peer = "opening"
    /\ creations < MaxCreations
    /\ deviceId' = DeviceIdOf(u)
    /\ storage' = DeviceIdOf(u)
    /\ creations' = creations + 1
    /\ initPromise' = [initPromise EXCEPT ![creations + 1] = "pending"]
    /\ peer' = "opening"
    /\ Observe(OpRet("endpoint-unavailable-id", deviceId, creations), <<>>,
               <<Event("error", [type |-> "unavailable-id"])>>)
    /\ UNCHANGED <<isHost, roomId, connections, handles>>
    /\ UNCHANGED joinVars
    /\ UNCHANGED <<connectCalls, delays, everOpened, everErrored>>
    /\ UNCHANGED <<mediaVars, lateOpens, busVars>>

\* The endpoint's 'error' listener, any other error while opening: emit 'error'
\* and reject.  The transport destroys an endpoint that cannot open.
EndpointError ==
    /\ peer = "opening"
    /\ peer' = "destroyed"
    /\ initPromise' = SettleInit("rejected")
    /\ Observe(OpRet("endpoint-error", deviceId, creations), <<>>,
               <<Event("error", [type |-> "server-error"])>>)
    /\ UNCHANGED <<deviceId, isHost, roomId, connections, handles>>
    /\ UNCHANGED joinVars
    /\ UNCHANGED <<connectCalls, delays, everOpened, everErrored>>
    /\ UNCHANGED <<mediaVars, lateOpens, busVars, storage, creations>>

\* ---------------------------------------------------------------- joinRoom

\* JoinAttempt with the 'connecting' event emitted before the endpoint is inspected.
JoinAttemptAnnounced(hostId, att, op) ==
    LET created == [promise EXCEPT ![att] = "pending"]
        nh == connectCalls + 1
    IN
    /\ attempt' = att
    /\ IF peer \in {"null", "destroyed"} THEN
            /\ promise' = Settle(created, att, "rejNotInit")
            /\ timer' = "none"
            /\ Observe(op, <<>>, <<ProgressEvent("connecting", att)>>)
            /\ UNCHANGED <<handles, connectCalls>>
       ELSE IF peer = "disconnected" THEN
            /\ promise' = Settle(created, att, "rejDisconnected")
            /\ timer' = "none"
            /\ Observe(op, <<>>, <<ProgressEvent("connecting", att)>>)
            /\ UNCHANGED <<handles, connectCalls>>
       ELSE
            /\ nh \in OutHandles
            /\ connectCalls' = nh
            /\ Observe(op, <<>>, <<ProgressEvent("connecting", att)>>)
            /\ IF ~ConnectReturnsHandle THEN
                    /\ promise' = Settle(created, att, "rejNoConn")
                    /\ timer' = "none"
                    /\ UNCHANGED handles
               ELSE
                    /\ promise' = created
                    /\ timer' = "attempt"
                    /\ handles' = [handles EXCEPT ![nh] =
                           [kind |-> "out", peerId |-> hostId, att |-> att,
                            st |-> "connecting", reg |-> FALSE, setup |-> FALSE]]

\* The body of joinRoom(hostId, att) up to the registration of its listeners.
JoinAttempt(hostId, att, op) ==
    LET created == [promise EXCEPT ![att] = "pending"]
        nh == connectCalls + 1
    IN
    /\ attempt' = att
    /\ IF peer \in {"null", "destroyed"} THEN
            /\ promise' = Settle(created, att, "rejNotInit")
            /\ timer' = "none"
            /\ Observe(op, <<>>, <<>>)
            /\ UNCHANGED <<handles, connectCalls>>
       ELSE IF peer = "disconnected" THEN
            /\ promise' = Settle(created, att, "rejDisconnected")
            /\ timer' = "none"
            /\ Observe(op, <<>>, <<>>)
            /\ UNCHANGED <<handles, connectCalls>>
       ELSE
            /\ nh \in OutHandles
            /\ connectCalls' = nh
            /\ Observe(op, <<>>, <<ProgressEvent("connecting", att)>>)
            /\ IF ~ConnectReturnsHandle THEN
                    /\ promise' = Settle(created, att, "rejNoConn")
                    /\ timer' = "none"
                    /\ UNCHANGED handles
               ELSE
                    /\ promise' = created
                    /\ timer' = "attempt"
                    /\ handles' = [handles EXCEPT ![nh] =
                           [kind |-> "out", peerId |-> hostId, att |-> att,
                            st |-> "connecting", reg |-> FALSE, setup |-> FALSE]]

\* joinRoom(hostId) called by the user interface (attempt = 1).
JoinRoom(hostId) ==
    /\ joinHost = NoId
    /\ joinHost' = hostId
    /\ JoinAttempt(hostId, 1, Op("joinRoom", hostId))
    /\ UNCHANGED <<peer, deviceId, isHost, roomId, connections>>
    /\ UNCHANGED <<delays, everOpened, everErrored>>
    /\ UNCHANGED <<mediaVars, initVars, lateOpens, busVars>>

\* AttemptTimeout with the exponent of the backoff off by one (2^attempt).
AttemptTimeoutWrongDelay ==
    /\ timer = "attempt"
    /\ IF attempt < MAX_RETRY_ATTEMPTS THEN
            /\ timer' = "backoff"
            /\ delays' = Append(delays, RETRY_BASE_DELAY_MS * Pow2(attempt))
            /\ Observe(Op("attempt-timeout", joinHost), <<>>,
                       <<ProgressEvent("retrying", attempt + 1)>>)
            /\ UNCHANGED promise
       ELSE
            /\ timer' = "none"
            /\ promise' = Settle(promise, attempt, "rejExhausted")
            /\ Observe(Op("attempt-timeout", joinHost), <<>>, <<>>)
            /\ UNCHANGED delays
    /\ UNCHANGED netVars
    /\ UNCHANGED <<joinHost, attempt>>
    /\ UNCHANGED <<connectCalls, everOpened, everErrored>>
    /\ UNCHANGED <<mediaVars, initVars, lateOpens, busVars>>

\* AttemptTimeout without the 'retrying' event.
AttemptTimeoutSilent ==
    /\ timer = "attempt"
    /\ IF attempt < MAX_RETRY_ATTEMPTS THEN
            /\ timer' = "backoff"
            /\ delays' = Append(delays, RETRY_BASE_DELAY_MS * Pow2(attempt - 1))
            /\ Observe(Op("attempt-timeout", joinHost), <<>>, <<>>)
            /\ UNCHANGED promise
       ELSE
            /\ timer' = "none"
            /\ promise' = Settle(promise, attempt, "rejExhausted")
            /\ Observe(Op("attempt-timeout", joinHost), <<>>, <<>>)
            /\ UNCHANGED delays
    /\ UNCHANGED netVars
    /\ UNCHANGED <<joinHost, attempt>>
    /\ UNCHANGED <<connectCalls, everOpened, everErrored>>
    /\ UNCHANGED <<mediaVars, initVars, lateOpens, busVars>>

\* The connectionTimeout callback of the current attempt.
AttemptTimeout ==
    /\ timer = "attempt"
    /\ IF attempt < MAX_RETRY_ATTEMPTS THEN
            /\ timer' = "backoff"
            /\ delays' = Append(delays, RETRY_BASE_DELAY_MS * Pow2(attempt - 1))
            /\ Observe(Op("attempt-timeout", joinHost), <<>>,
                       <<ProgressEvent("retrying", attempt + 1)>>)
            /\ UNCHANGED promise
       ELSE
            /\ timer' = "none"
            /\ promise' = Settle(promise, attempt, "rejExhausted")
            /\ Observe(Op("attempt-timeout", joinHost), <<>>, <<>>)
            /\ UNCHANGED delays
    /\ UNCHANGED netVars
    /\ UNCHANGED <<joinHost, attempt>>
    /\ UNCHANGED <<connectCalls, everOpened, everErrored>>
    /\ UNCHANGED <<mediaVars, initVars, lateOpens, busVars>>

\* The backoff setTimeout callback: joinRoom(hostId, attempt + 1).
BackoffFire ==
    /\ timer = "backoff"
    /\ JoinAttempt(joinHost, attempt + 1, Op("retry", joinHost))
    /\ UNCHANGED <<peer, deviceId, isHost, roomId, connections>>
    /\ UNCHANGED joinHost
    /\ UNCHANGED <<delays, everOpened, everErrored>>
    /\ UNCHANGED <<mediaVars, initVars, lateOpens, busVars>>

\* ---------------------------------------------------------------- handleConnection

\* setupConnection: the entry, the event and the handshake.
SetupEvents(h) == <<Event("peer-connected", [peerId |-> handles[h].peerId])>>
SetupSends(h) == <<[to |-> h, type |-> "device-info"]>>

\* The transport fires 'open' on handle h.  On a handle of joinRoom its 'open'
\* listener runs: clearTimeout, 'connected', handleConnection(conn) (conn.open is
\* true, so setupConnection runs at once), roomId, resolve.  On an inbound handle
\* the 'open' listener of handleConnection runs setupConnection, once.
ConnOpen(h) ==
    LET hd == handles[h]
        out == hd.kind = "out"
        doSetup == out \/ (hd.reg /\ ~hd.setup)
    IN
    /\ hd.st = "connecting"
    /\ handles' = [handles EXCEPT ![h] =
           [hd EXCEPT !.st = "open", !.reg = TRUE, !.setup = (hd.setup \/ doSetup)]]
    /\ connections' = IF doSetup THEN [connections EXCEPT ![hd.peerId] = h]
                      ELSE connections
    /\ timer' = IF out THEN ClearAttemptTimer(hd.att) ELSE timer
    /\ roomId' = IF out THEN hd.peerId ELSE roomId
    /\ promise' = IF out THEN Settle(promise, hd.att, "resolved") ELSE promise
    /\ everOpened' = (everOpened \/ out)
    /\ Observe(Op("conn-open", hd.peerId),
               IF doSetup THEN SetupSends(h) ELSE <<>>,
               (IF out THEN <<ProgressEvent("connected", hd.att)>> ELSE <<>>)
                   \o (IF doSetup THEN SetupEvents(h) ELSE <<>>))
    /\ UNCHANGED <<peer, deviceId, isHost>>
    /\ UNCHANGED <<joinHost, attempt>>
    /\ UNCHANGED <<connectCalls, delays, everErrored>>
    /\ UNCHANGED <<mediaVars, initVars, lateOpens, busVars>>

\* OpenRepeated without the isSetupComplete test.
OpenRepeatedUnguarded(h) ==
    LET hd == handles[h] IN
    /\ hd.reg
    /\ hd.st = "open"
    /\ h \notin lateOpens
    /\ lateOpens' = lateOpens \cup {h}
    /\ handles' = [handles EXCEPT ![h].setup = TRUE]
    /\ connections' = [connections EXCEPT ![hd.peerId] = h]
    /\ Observe(OpRet("open-listener", hd.peerId, h), SetupSends(h), SetupEvents(h))
    /\ UNCHANGED <<peer, deviceId, isHost, roomId>>
    /\ UNCHANGED joinVars
    /\ UNCHANGED <<connectCalls, delays, everOpened, everErrored>>
    /\ UNCHANGED <<mediaVars, initVars, busVars>>

\* The 'open' listener that handleConnection registered runs on a handle that is
\* set up already: the handle was open when handleConnection inspected it and
\* its 'open' event is delivered afterwards (or the emitter that is delivering
\* 'open' to joinRoom's listener also runs the listener added meanwhile).
\* setupConnection returns at its isSetupComplete test.
OpenRepeated(h) ==
    LET hd == handles[h]
        doSetup == ~hd.setup
    IN
    /\ hd.reg
    /\ hd.st = "open"
    /\ h \notin lateOpens
    /\ lateOpens' = lateOpens \cup {h}
    /\ handles' = [handles EXCEPT ![h].setup = (hd.setup \/ doSetup)]
    /\ connections' = IF doSetup THEN [connections EXCEPT ![hd.peerId] = h]
                      ELSE connections
    /\ Observe(OpRet("open-listener", hd.peerId, h),
               IF doSetup THEN SetupSends(h) ELSE <<>>,
               IF doSetup THEN SetupEvents(h) ELSE <<>>)
    /\ UNCHANGED <<peer, deviceId, isHost, roomId>>
    /\ UNCHANGED joinVars
    /\ UNCHANGED <<connectCalls, delays, everOpened, everErrored>>
    /\ UNCHANGED <<mediaVars, initVars, busVars>>

\* The transport fires 'error' on handle h.  joinRoom's listener: clearTimeout,
\* reject(err).  handleConnection's listener, when registered: 'peer-error'.
ConnError(h) ==
    LET hd == handles[h]
        out == hd.kind = "out"
    IN
    /\ hd.st \in {"connecting", "open"}
    /\ timer' = IF out THEN ClearAttemptTimer(hd.att) ELSE timer
    /\ promise' = IF out THEN Settle(promise, hd.att, "rejError") ELSE promise
    /\ everErrored' = (everErrored \/ out)
    /\ Observe(Op("conn-error", hd.peerId), <<>>,
               IF hd.reg THEN <<Event("peer-error", [peerId |-> hd.peerId])>> ELSE <<>>)
    /\ UNCHANGED netVars
    /\ UNCHANGED <<joinHost, attempt>>
    /\ UNCHANGED <<connectCalls, delays, everOpened>>
    /\ UNCHANGED <<mediaVars, initVars, lateOpens, busVars>>

\* The transport loses an open connection: conn.open turns false; its 'close'
\* event is delivered by ConnClose.
ConnDrop(h) ==
    /\ handles[h].st = "open"
    /\ handles' = [handles EXCEPT ![h].st = "dropped"]
    /\ Observe(Op("conn-drop", handles[h].peerId), <<>>, <<>>)
    /\ UNCHANGED <<peer, deviceId, isHost, roomId, connections>>
    /\ UNCHANGED joinVars
    /\ UNCHANGED <<connectCalls, delays, everOpened, everErrored>>
    /\ UNCHANGED <<mediaVars, initVars, lateOpens, busVars>>

\* The 'close' listener of handleConnection: connections.delete(peerId),
\* 'peer-disconnected'.
ConnClose(h) ==
    LET hd == handles[h] IN
    /\ hd.st = "dropped"
    /\ handles' = [handles EXCEPT ![h].st = "closed"]
    /\ connections' = IF hd.reg THEN [connections EXCEPT ![hd.peerId] = NoHandle]
                      ELSE connections
    /\ Observe(Op("conn-close", hd.peerId), <<>>,
               IF hd.reg THEN <<Event("peer-disconnected", [peerId |-> hd.peerId])>>
               ELSE <<>>)
    /\ UNCHANGED <<peer, deviceId, isHost, roomId>>
    /\ UNCHANGED joinVars
    /\ UNCHANGED <<connectCalls, delays, everOpened, everErrored>>
    /\ UNCHANGED <<mediaVars, initVars, lateOpens, busVars>>

\* The endpoint's 'connection' event: handleConnection(conn) on an inbound handle,
\* which the transport may hand over open already.
InboundConnection(h, p, isOpen) ==
    /\ peer = "ready"
    /\ h \in InHandles
    /\ handles[h].kind = "none"
    /\ \A g \in InHandles : g < h => handles[g].kind # "none"
    /\ handles' = [handles EXCEPT ![h] =
           [kind |-> "in", peerId |-> p, att |-> 0,
            st |-> IF isOpen THEN "open" ELSE "connecting",
            reg |-> TRUE, setup |-> isOpen]]
    /\ connections' = IF isOpen THEN [connections EXCEPT ![p] = h] ELSE connections
    /\ Observe(Op("connection", p),
               IF isOpen THEN <<[to |-> h, type |-> "device-info"]>> ELSE <<>>,
               IF isOpen THEN <<Event("peer-connected", [peerId |-> p])>> ELSE <<>>)
    /\ UNCHANGED <<peer, deviceId, isHost, roomId>>
    /\ UNCHANGED joinVars
    /\ UNCHANGED <<connectCalls, delays, everOpened, everErrored>>
    /\ UNCHANGED <<mediaVars, initVars, lateOpens, busVars>>

\* ---------------------------------------------------------------- room

\* createRoom(): uuidv4() returns u.
CreateRoom(u) ==
    /\ isHost' = TRUE
    /\ roomId' = RoomIdOf(u)
    /\ Observe(OpRet("createRoom", NoId, RoomIdOf(u)), <<>>,
               <<Event("room-created", [roomId |-> RoomIdOf(u), deviceId |-> deviceId])>>)
    /\ UNCHANGED <<peer, deviceId, connections, handles>>
    /\ UNCHANGED joinVars
    /\ UNCHANGED <<connectCalls, delays, everOpened, everErrored>>
    /\ UNCHANGED <<mediaVars, initVars, lateOpens, busVars>>

\* ---------------------------------------------------------------- sending

\* broadcast without the conn.open test.
RECURSIVE BroadcastOverAll(_, _)
BroadcastOverAll(peers, type) ==
    IF peers = {} THEN <<>>
    ELSE LET p == CHOOSE q \in peers : TRUE
             conn == connections[p]
         IN  (IF conn # NoHandle
              THEN <<[to |-> conn, type |-> type]>> ELSE <<>>)
             \o BroadcastOverAll(peers \ {p}, type)

\* broadcast(message): for (const conn of this.connections.values())
\*                         if (conn.open) conn.send(message)
RECURSIVE BroadcastOver(_, _)
BroadcastOver(peers, type) ==
    IF peers = {} THEN <<>>
    ELSE LET p == CHOOSE q \in peers : TRUE
             conn == connections[p]
         IN  (IF conn # NoHandle /\ IsOpen(conn)
              THEN <<[to |-> conn, type |-> type]>> ELSE <<>>)
             \o BroadcastOver(peers \ {p}, type)

Broadcast(type) == BroadcastOver(RemotePeers, type)

\* The helpers that only stamp the data and broadcast it: broadcastDetection,
\* broadcastAlert, broadcastWalkieStatus.
StampedTypes == {"detection", "threat-alert", "walkie-status"}
HelperOf(type) ==
    CASE type = "detection" -> "broadcastDetection"
      [] type = "threat-alert" -> "broadcastAlert"
      [] type = "walkie-status" -> "broadcastWalkieStatus"

BroadcastStamped(type) ==
    /\ Observe(Op(HelperOf(type), NoId), Broadcast(type), <<>>)
    /\ UNCHANGED netVars
    /\ UNCHANGED joinVars
    /\ UNCHANGED <<connectCalls, delays, everOpened, everErrored>>
    /\ UNCHANGED <<mediaVars, initVars, lateOpens, busVars>>

\* broadcastViewSwitch without the isHost test.
BroadcastViewSwitchUnguarded(target) ==
    /\ Observe(Op("broadcastViewSwitch", target), Broadcast("view-switch"), <<>>)
    /\ UNCHANGED netVars
    /\ UNCHANGED joinVars
    /\ UNCHANGED <<connectCalls, delays, everOpened, everErrored>>
    /\ UNCHANGED <<mediaVars, initVars, lateOpens, busVars>>

\* broadcastViewSwitch(targetDevice)
BroadcastViewSwitch(target) ==
    /\ Observe(Op("broadcastViewSwitch", target),
               IF ~isHost THEN <<>> ELSE Broadcast("view-switch"), <<>>)
    /\ UNCHANGED netVars
    /\ UNCHANGED joinVars
    /\ UNCHANGED <<connectCalls, delays, everOpened, everErrored>>
    /\ UNCHANGED <<mediaVars, initVars, lateOpens, busVars>>

\* requestVideoFromPeer(peerId)
RequestVideoFromPeer(peerId) ==
    LET conn == connections[peerId]
        ok == conn # NoHandle /\ IsOpen(conn)
    IN
    /\ Observe(Op("requestVideoFromPeer", peerId),
               IF ok THEN <<[to |-> conn, type |-> "video-request"]>> ELSE <<>>,
               IF ok THEN <<Event("video-requested", [peerId |-> peerId])>> ELSE <<>>)
    /\ UNCHANGED netVars
    /\ UNCHANGED joinVars
    /\ UNCHANGED <<connectCalls, delays, everOpened, everErrored>>
    /\ UNCHANGED <<mediaVars, initVars, lateOpens, busVars>>

\* TrackingPage's handleViewSwitch({targetDevice}), the controller that calls
\* requestVideoFromPeer: run for the host's own click and for a received
\* 'view-switch' alike.
HandleViewSwitch(target) == RequestVideoFromPeer(target)

\* ---------------------------------------------------------------- messages

\* The chat texts and the values of Date.now() in the model.
Texts == {"hi", "hello"}
Timestamps == {"t1", "t2"}

\* The operation that ran on a message msg received from a peer.
OpFrom(name, from, msg) == [name |-> name, arg |-> msg, ret |-> NoId, from |-> from]

\* The envelope broadcastChatMessage builds on device src.
ChatEnvelope(src, m, t) ==
    [type |-> "chat-message",
     data |-> [message |-> m, sourceDevice |-> src, timestamp |-> t]]

\* The envelope requestVideoFromPeer builds on device src.
VideoRequestEnvelope(src, t) ==
    [type |-> "video-request", data |-> [requesterId |-> src, timestamp |-> t]]

\* The envelope broadcastViewSwitch builds on device src.
ViewSwitchEnvelope(src, target, t) ==
    [type |-> "view-switch",
     data |-> [targetDevice |-> target, sourceDevice |-> src, timestamp |-> t]]

\* The envelopes broadcastDetection, broadcastAlert and broadcastWalkieStatus
\* build on device src, and the handshake setupConnection sends.
DetectionEnvelope(src, t) ==
    [type |-> "detection", data |-> [label |-> "drone", sourceDevice |-> src, timestamp |-> t]]
AlertEnvelope(src, t) ==
    [type |-> "threat-alert", data |-> [level |-> "high", sourceDevice |-> src, timestamp |-> t]]
WalkieEnvelope(src, isActive, t) ==
    [type |-> "walkie-status",
     data |-> [isActive |-> isActive, sourceDevice |-> src, timestamp |-> t]]
DeviceInfoEnvelope(src, t) ==
    [type |-> "device-info", data |-> [deviceId |-> src, timestamp |-> t]]
\* The keep-alive envelope, which no function of the class builds.
HeartbeatEnvelope == [type |-> "heartbeat", data |-> [seq |-> "s1"]]

\* An envelope of a type handleData has no case for.
UnknownEnvelope == [type |-> "ping", data |-> [seq |-> "s1"]]

\* broadcast(envelope): the sends of broadcast, each carrying the envelope's data.
SendAll(env) ==
    LET sends == Broadcast(env.type) IN
    [i \in 1..Len(sends) |-> [to |-> sends[i].to, type |-> env.type, data |-> env.data]]

\* broadcastChatMessage without the local event.
BroadcastChatMessageNoEcho(m, t) ==
    /\ Observe(Op("broadcastChatMessage", m), SendAll(ChatEnvelope(deviceId, m, t)), <<>>)
    /\ UNCHANGED <<netVars, joinVars, mediaVars, initVars, lateOpens, busVars>>
    /\ UNCHANGED <<connectCalls, delays, everOpened, everErrored>>

\* broadcastChatMessage(message), Date.now() returning t.
BroadcastChatMessage(m, t) ==
    /\ Observe(Op("broadcastChatMessage", m), SendAll(ChatEnvelope(deviceId, m, t)),
               <<Event("chat-message",
                       [peerId |-> deviceId, message |-> m, timestamp |-> t,
                        isLocal |-> TRUE])>>)
    /\ UNCHANGED <<netVars, joinVars, mediaVars, initVars, lateOpens, busVars>>
    /\ UNCHANGED <<connectCalls, delays, everOpened, everErrored>>

\* DataEvents without the default case of the switch.
DataEventsDropUnknown(peerId, msg) ==
    CASE msg.type = "detection" ->
             <<Event("remote-detection", [peerId |-> peerId, detection |-> msg.data])>>
      [] msg.type = "threat-alert" ->
             <<Event("remote-alert", [peerId |-> peerId, alert |-> msg.data])>>
      [] msg.type = "device-info" ->
             <<Event("device-info", [peerId |-> peerId, info |-> msg.data])>>
      [] msg.type = "view-switch" ->
             <<Event("view-switch",
                     [peerId |-> peerId, targetDevice |-> msg.data.targetDevice])>>
      [] msg.type = "chat-message" ->
             <<Event("chat-message",
                     [peerId |-> peerId, message |-> msg.data.message,
                      timestamp |-> msg.data.timestamp])>>
      [] msg.type = "walkie-status" ->
             <<Event("walkie-status",
                     [peerId |-> peerId, isActive |-> msg.data.isActive,
                      timestamp |-> msg.data.timestamp])>>
      [] msg.type = "video-request" ->
             <<Event("video-request",
                     [peerId |-> peerId, requesterId |-> msg.data.requesterId,
                      timestamp |-> msg.data.timestamp])>>
      [] OTHER -> <<>>

\* The events handleData(peerId, message) emits.
DataEvents(peerId, msg) ==
    CASE msg.type = "detection" ->
             <<Event("remote-detection", [peerId |-> peerId, detection |-> msg.data])>>
      [] msg.type = "threat-alert" ->
             <<Event("remote-alert", [peerId |-> peerId, alert |-> msg.data])>>
      [] msg.type = "device-info" ->
             <<Event("device-info", [peerId |-> peerId, info |-> msg.data])>>
      [] msg.type = "heartbeat" -> <<>>
      [] msg.type = "view-switch" ->
             <<Event("view-switch",
                     [peerId |-> peerId, targetDevice |-> msg.data.targetDevice])>>
      [] msg.type = "chat-message" ->
             <<Event("chat-message",
                     [peerId |-> peerId, message |-> msg.data.message,
                      timestamp |-> msg.data.timestamp])>>
      [] msg.type = "walkie-status" ->
             <<Event("walkie-status",
                     [peerId |-> peerId, isActive |-> msg.data.isActive,
                      timestamp |-> msg.data.timestamp])>>
      [] msg.type = "video-request" ->
             <<Event("video-request",
                     [peerId |-> peerId, requesterId |-> msg.data.requesterId,
                      timestamp |-> msg.data.timestamp])>>
      [] OTHER ->
             <<Event("message", [peerId |-> peerId, type |-> msg.type, data |-> msg.data])>>

\* HandleData that reports this device as the sender.
HandleDataAsOwn(h, msg) ==
    /\ handles[h].reg
    /\ handles[h].st = "open"
    /\ Observe(OpFrom("data", handles[h].peerId, msg), <<>>, DataEvents(deviceId, msg))
    /\ UNCHANGED <<netVars, joinVars, mediaVars, initVars, lateOpens, busVars>>
    /\ UNCHANGED <<connectCalls, delays, everOpened, everErrored>>

\* The 'data' listener handleConnection puts on handle h: handleData(conn.peer, msg).
HandleData(h, msg) ==
    /\ handles[h].reg
    /\ handles[h].st = "open"
    /\ Observe(OpFrom("data", handles[h].peerId, msg), <<>>,
               DataEvents(handles[h].peerId, msg))
    /\ UNCHANGED <<netVars, joinVars, mediaVars, initVars, lateOpens, busVars>>
    /\ UNCHANGED <<connectCalls, delays, everOpened, everErrored>>

\* ---------------------------------------------------------------- event bus

\* The elements of a Set, listed in insertion order.
Members(seq) == {seq[i] : i \in 1..Len(seq)}

\* Set.add(cb): a new element goes last, one already present stays where it is.
SetAdd(seq, cb) == IF cb \in Members(seq) THEN seq ELSE Append(seq, cb)

\* Set.delete(cb)
SetDelete(seq, cb) == SelectSeq(seq, LAMBDA x : x # cb)

\* What the steps of the bus leave alone.
BusFrame ==
    /\ UNCHANGED <<netVars, joinVars, mediaVars, initVars, lateOpens>>
    /\ UNCHANGED <<connectCalls, delays, everOpened, everErrored>>

\* on(event, callback): add to the event's Set, return the unsubscribe function.
On(e, cb) ==
    /\ listeners' = [listeners EXCEPT ![e] = SetAdd(@, cb)]
    /\ unsubscribers' = unsubscribers \cup {<<e, cb>>}
    /\ callbacksRun' = <<>>
    /\ Observe(OpRet("on", e, cb), <<>>, <<>>)
    /\ BusFrame

\* off(event, callback): delete from the event's Set.
Off(e, cb) ==
    /\ listeners' = [listeners EXCEPT ![e] = SetDelete(@, cb)]
    /\ callbacksRun' = <<>>
    /\ Observe(OpRet("off", e, cb), <<>>, <<>>)
    /\ UNCHANGED unsubscribers
    /\ BusFrame

\* A function returned by on(event, callback) is called: this.off(event, callback).
Unsubscribe(e, cb) ==
    /\ <<e, cb>> \in unsubscribers
    /\ listeners' = [listeners EXCEPT ![e] = SetDelete(@, cb)]
    /\ callbacksRun' = <<>>
    /\ Observe(OpRet("unsubscribe", e, cb), <<>>, <<>>)
    /\ UNCHANGED unsubscribers
    /\ BusFrame

\* EmitEvent calling the callbacks last registered first.
EmitEventReversed(e) ==
    /\ callbacksRun' = [i \in 1..Len(listeners[e]) |->
                            listeners[e][Len(listeners[e]) + 1 - i]]
    /\ Observe(Op("emit", e), <<>>, <<Event(e, NoId)>>)
    /\ UNCHANGED <<listeners, unsubscribers>>
    /\ BusFrame

\* emit(event, data): the for-of over the event's Set calls each callback; the
\* callbacks return.
EmitEvent(e) ==
    /\ callbacksRun' = listeners[e]
    /\ Observe(Op("emit", e), <<>>, <<Event(e, NoId)>>)
    /\ UNCHANGED <<listeners, unsubscribers>>
    /\ BusFrame

\* ---------------------------------------------------------------- media calls

\* The operation that ran, what it returned and the peers it called.
OpCalls(name, ret, called) == [name |-> name, arg |-> NoId, ret |-> ret, called |-> called]

\* this.connections.keys()
ConnKeys == {p \in RemotePeers : connections[p] # NoHandle}

\* peer.call() hands out a call only while the endpoint is connected to the
\* server; callPeerWithAudio/Video return early without an endpoint.
PeersCalled == IF peer = "ready" THEN ConnKeys ELSE {}

FreeCalls == {c \in CallIds : calls[c].kind = "none"}

\* callPeerWithAudio / callPeerWithVideo over the keys of connections: each call
\* is created by peer.call(), gets its listeners and replaces the peer's entry in
\* the kind's map.  cs and mc are the calls and the map so far.
RECURSIVE CallPeers(_, _, _, _)
CallPeers(kind, peers, cs, mc) ==
    IF peers = {} THEN [calls |-> cs, map |-> mc]
    ELSE LET p == CHOOSE q \in peers : TRUE
             c == CHOOSE d \in CallIds :
                      /\ cs[d].kind = "none"
                      /\ \A e \in CallIds : e < d => cs[e].kind # "none"
         IN  CallPeers(kind, peers \ {p},
                 [cs EXCEPT ![c] = [kind |-> kind, dir |-> "out", peerId |-> p,
                                    st |-> "ringing"]],
                 [mc EXCEPT ![p] = c])

\* call.open: the call was answered and not closed.
CallOpen(c) == calls[c].st \in {"live", "streaming"}

\* The calls a stop closes: the values of the kind's map.
CallsIn(map) == {map[p] : p \in {q \in RemotePeers : map[q] # NoCall}}

\* The 'close' listeners run by the call.close() calls of a stop: one
\* '<kind>-ended' per call that was open.
RECURSIVE EndedEvents(_, _, _)
EndedEvents(name, peers, map) ==
    IF peers = {} THEN <<>>
    ELSE LET p == CHOOSE q \in peers : TRUE
         IN  (IF map[p] # NoCall /\ CallOpen(map[p])
              THEN <<Event(name, [peerId |-> p])>> ELSE <<>>)
             \o EndedEvents(name, peers \ {p}, map)

\* The calls after call.close() on every call of the set.
CloseCalls(cset) == [c \in CallIds |-> IF c \in cset THEN FreeCall ELSE calls[c]]

\* The stream object a getUserMedia() call resolves with: one not handed out yet
\* (or one whose tracks were stopped), the first of them.
FreshStreams ==
    {s \in Streams \ liveStreams : \A r \in Streams : r < s => r \in liveStreams}

\* startAudioBroadcast(): up to the await of getUserMedia().
StartAudioBroadcast ==
    /\ ~acquiring["audio"]
    /\ acquiring' = [acquiring EXCEPT !["audio"] = TRUE]
    /\ Observe(Op("startAudioBroadcast", NoId), <<>>, <<>>)
    /\ UNCHANGED <<localAudioStream, localVideoStream, isStreamingVideo,
                   mediaConnections, videoConnections, calls, liveStreams>>
    /\ UNCHANGED <<netVars, joinVars, initVars, lateOpens, busVars>>
    /\ UNCHANGED <<connectCalls, delays, everOpened, everErrored>>

\* getUserMedia() resolves with stream s: the rest of startAudioBroadcast().
AudioAcquired(s) ==
    LET made == CallPeers("audio", PeersCalled, calls, mediaConnections) IN
    /\ acquiring["audio"]
    /\ s \in FreshStreams
    /\ Cardinality(FreeCalls) >= Cardinality(PeersCalled)
    /\ acquiring' = [acquiring EXCEPT !["audio"] = FALSE]
    /\ localAudioStream' = s
    /\ liveStreams' = liveStreams \cup {s}
    /\ calls' = made.calls
    /\ mediaConnections' = made.map
    /\ Observe(OpCalls("audio-acquired", s, PeersCalled), <<>>,
               <<Event("audio-started", [deviceId |-> deviceId])>>)
    /\ UNCHANGED <<localVideoStream, isStreamingVideo, videoConnections>>
    /\ UNCHANGED <<netVars, joinVars, initVars, lateOpens, busVars>>
    /\ UNCHANGED <<connectCalls, delays, everOpened, everErrored>>

\* getUserMedia() rejects: the catch block of startAudioBroadcast().
AudioDenied ==
    /\ acquiring["audio"]
    /\ acquiring' = [acquiring EXCEPT !["audio"] = FALSE]
    /\ Observe(Op("audio-denied", NoId), <<>>,
               <<Event("audio-error", [error |-> "NotAllowedError"])>>)
    /\ UNCHANGED <<localAudioStream, localVideoStream, isStreamingVideo,
                   mediaConnections, videoConnections, calls, liveStreams>>
    /\ UNCHANGED <<netVars, joinVars, initVars, lateOpens, busVars>>
    /\ UNCHANGED <<connectCalls, delays, everOpened, everErrored>>

\* stopAudioBroadcast that leaves the calls open and registered.
StopAudioBroadcastKeepCalls ==
    /\ localAudioStream' = NoStream
    /\ liveStreams' = liveStreams \ {localAudioStream}
    /\ Observe(Op("stopAudioBroadcast", NoId), <<>>,
               <<Event("audio-stopped", [deviceId |-> deviceId])>>)
    /\ UNCHANGED <<calls, mediaConnections>>
    /\ UNCHANGED <<localVideoStream, isStreamingVideo, videoConnections, acquiring>>
    /\ UNCHANGED <<netVars, joinVars, initVars, lateOpens, busVars>>
    /\ UNCHANGED <<connectCalls, delays, everOpened, everErrored>>

\* stopAudioBroadcast(): stop the tracks, close the calls, clear the map.
StopAudioBroadcast ==
    /\ localAudioStream' = NoStream
    /\ liveStreams' = liveStreams \ {localAudioStream}
    /\ calls' = CloseCalls(CallsIn(mediaConnections))
    /\ mediaConnections' = [p \in RemotePeers |-> NoCall]
    /\ Observe(Op("stopAudioBroadcast", NoId), <<>>,
               EndedEvents("audio-ended", RemotePeers, mediaConnections)
                   \o <<Event("audio-stopped", [deviceId |-> deviceId])>>)
    /\ UNCHANGED <<localVideoStream, isStreamingVideo, videoConnections, acquiring>>
    /\ UNCHANGED <<netVars, joinVars, initVars, lateOpens, busVars>>
    /\ UNCHANGED <<connectCalls, delays, everOpened, everErrored>>

\* The rest of startVideoStream() once this.localVideoStream is s.
VideoStarted(s, name) ==
    LET made == CallPeers("video", PeersCalled, calls, videoConnections) IN
    /\ Cardinality(FreeCalls) >= Cardinality(PeersCalled)
    /\ localVideoStream' = s
    /\ isStreamingVideo' = TRUE
    /\ calls' = made.calls
    /\ videoConnections' = made.map
    /\ Observe(OpCalls(name, s, PeersCalled), <<>>,
               <<Event("video-started", [deviceId |-> deviceId])>>)
    /\ UNCHANGED <<localAudioStream, mediaConnections>>
    /\ UNCHANGED <<netVars, joinVars, initVars, lateOpens, busVars>>
    /\ UNCHANGED <<connectCalls, delays, everOpened, everErrored>>

\* startVideoStream(existingStream): with a stream it runs to its end at once,
\* without one it awaits getUserMedia().
StartVideoStream(existing) ==
    IF existing THEN
        /\ VideoStarted(CameraStream, "startVideoStream-existing")
        /\ UNCHANGED <<acquiring, liveStreams>>
    ELSE
        /\ ~acquiring["video"]
        /\ acquiring' = [acquiring EXCEPT !["video"] = TRUE]
        /\ Observe(Op("startVideoStream", NoId), <<>>, <<>>)
        /\ UNCHANGED <<localAudioStream, localVideoStream, isStreamingVideo,
                       mediaConnections, videoConnections, calls, liveStreams>>
        /\ UNCHANGED <<netVars, joinVars, initVars, lateOpens, busVars>>
        /\ UNCHANGED <<connectCalls, delays, everOpened, everErrored>>

\* getUserMedia() resolves with stream s: the rest of startVideoStream().
VideoAcquired(s) ==
    /\ acquiring["video"]
    /\ s \in FreshStreams
    /\ acquiring' = [acquiring EXCEPT !["video"] = FALSE]
    /\ liveStreams' = liveStreams \cup {s}
    /\ VideoStarted(s, "video-acquired")

\* VideoDenied that leaves isStreamingVideo set.
VideoDeniedPartial ==
    /\ acquiring["video"]
    /\ acquiring' = [acquiring EXCEPT !["video"] = FALSE]
    /\ isStreamingVideo' = TRUE
    /\ Observe(Op("video-denied", NoId), <<>>,
               <<Event("video-error", [error |-> "NotAllowedError"])>>)
    /\ UNCHANGED <<localAudioStream, localVideoStream,
                   mediaConnections, videoConnections, calls, liveStreams>>
    /\ UNCHANGED <<netVars, joinVars, initVars, lateOpens, busVars>>
    /\ UNCHANGED <<connectCalls, delays, everOpened, everErrored>>

\* getUserMedia() rejects: the catch block of startVideoStream().
VideoDenied ==
    /\ acquiring["video"]
    /\ acquiring' = [acquiring EXCEPT !["video"] = FALSE]
    /\ Observe(Op("video-denied", NoId), <<>>,
               <<Event("video-error", [error |-> "NotAllowedError"])>>)
    /\ UNCHANGED <<localAudioStream, localVideoStream, isStreamingVideo,
                   mediaConnections, videoConnections, calls, liveStreams>>
    /\ UNCHANGED <<netVars, joinVars, initVars, lateOpens, busVars>>
    /\ UNCHANGED <<connectCalls, delays, everOpened, everErrored>>

\* stopVideoStream(): stop the tracks, close the calls, clear the map.
StopVideoStream ==
    /\ localVideoStream' = NoStream
    /\ liveStreams' = liveStreams \ {localVideoStream}
    /\ isStreamingVideo' = FALSE
    /\ calls' = CloseCalls(CallsIn(videoConnections))
    /\ videoConnections' = [p \in RemotePeers |-> NoCall]
    /\ Observe(Op("stopVideoStream", NoId), <<>>,
               EndedEvents("video-ended", RemotePeers, videoConnections)
                   \o <<Event("video-stopped", [deviceId |-> deviceId])>>)
    /\ UNCHANGED <<localAudioStream, mediaConnections, acquiring>>
    /\ UNCHANGED <<netVars, joinVars, initVars, lateOpens, busVars>>
    /\ UNCHANGED <<connectCalls, delays, everOpened, everErrored>>

\* call.metadata of the calls callPeerWithVideo / callPeerWithAudio make.
MetadataOf(kind) == IF kind = "video" THEN [type |-> "video"] ELSE [type |-> "none"]
\* handleIncomingCall: isVideoCall = (call.metadata || {}).type === 'video'
KindOf(metadata) == IF metadata.type = "video" THEN "video" ELSE "audio"

\* The endpoint's 'call' event: handleIncomingCall(call), which answers the call
\* with the local stream of its kind (or with none), registers the listeners and
\* replaces the peer's entry in the kind's map.
IncomingCall(p, metadata) ==
    LET kind == KindOf(metadata)
        c == CHOOSE d \in CallIds :
                 /\ calls[d].kind = "none"
                 /\ \A e \in CallIds : e < d => calls[e].kind # "none"
    IN
    /\ peer = "ready"
    /\ FreeCalls # {}
    /\ calls' = [calls EXCEPT ![c] = [kind |-> kind, dir |-> "in", peerId |-> p,
                                      st |-> "live"]]
    /\ IF kind = "video"
       THEN /\ videoConnections' = [videoConnections EXCEPT ![p] = c]
            /\ UNCHANGED mediaConnections
       ELSE /\ mediaConnections' = [mediaConnections EXCEPT ![p] = c]
            /\ UNCHANGED videoConnections
    /\ Observe(OpRet("call", p, IF kind = "video" THEN localVideoStream
                                ELSE localAudioStream), <<>>, <<>>)
    /\ UNCHANGED <<localAudioStream, localVideoStream, isStreamingVideo,
                   acquiring, liveStreams>>
    /\ UNCHANGED <<netVars, joinVars, initVars, lateOpens, busVars>>
    /\ UNCHANGED <<connectCalls, delays, everOpened, everErrored>>

\* The remote peer answers call c, made by this device.
CallAnswered(c) ==
    /\ calls[c].st = "ringing"
    /\ calls' = [calls EXCEPT ![c].st = "live"]
    /\ Observe(Op("call-answered", calls[c].peerId), <<>>, <<>>)
    /\ UNCHANGED <<localAudioStream, localVideoStream, isStreamingVideo,
                   mediaConnections, videoConnections, acquiring, liveStreams>>
    /\ UNCHANGED <<netVars, joinVars, initVars, lateOpens, busVars>>
    /\ UNCHANGED <<connectCalls, delays, everOpened, everErrored>>

\* CallStream that reports every stream as audio.
CallStreamAsAudio(c) ==
    /\ calls[c].st = "live"
    /\ calls' = [calls EXCEPT ![c].st = "streaming"]
    /\ Observe(Op("call-stream", calls[c].peerId), <<>>,
               <<Event("remote-audio", [peerId |-> calls[c].peerId])>>)
    /\ UNCHANGED <<localAudioStream, localVideoStream, isStreamingVideo,
                   mediaConnections, videoConnections, acquiring, liveStreams>>
    /\ UNCHANGED <<netVars, joinVars, initVars, lateOpens, busVars>>
    /\ UNCHANGED <<connectCalls, delays, everOpened, everErrored>>

\* The 'stream' listener of call c.
CallStream(c) ==
    /\ calls[c].st = "live"
    /\ calls' = [calls EXCEPT ![c].st = "streaming"]
    /\ Observe(Op("call-stream", calls[c].peerId), <<>>,
               <<Event(IF calls[c].kind = "video" THEN "remote-video" ELSE "remote-audio",
                       [peerId |-> calls[c].peerId])>>)
    /\ UNCHANGED <<localAudioStream, localVideoStream, isStreamingVideo,
                   mediaConnections, videoConnections, acquiring, liveStreams>>
    /\ UNCHANGED <<netVars, joinVars, initVars, lateOpens, busVars>>
    /\ UNCHANGED <<connectCalls, delays, everOpened, everErrored>>

\* The 'error' listener of call c: the calls callPeerWithAudio made only log it.
CallError(c) ==
    LET cl == calls[c] IN
    /\ cl.kind # "none"
    /\ Observe(OpRet("call-error", cl.peerId, c), <<>>,
               IF cl.kind = "video"
               THEN <<Event("video-error", [peerId |-> cl.peerId, error |-> "err"])>>
               ELSE IF cl.dir = "in"
               THEN <<Event("audio-error", [peerId |-> cl.peerId, error |-> "err"])>>
               ELSE <<>>)
    /\ UNCHANGED mediaVars
    /\ UNCHANGED <<netVars, joinVars, initVars, lateOpens, busVars>>
    /\ UNCHANGED <<connectCalls, delays, everOpened, everErrored>>

\* The 'close' listener of call c: delete the peer's entry of the kind's map
\* (whichever call it holds), emit '<kind>-ended'.
CallClose(c) ==
    LET cl == calls[c] IN
    /\ CallOpen(c)
    /\ calls' = [calls EXCEPT ![c] = FreeCall]
    /\ IF cl.kind = "video"
       THEN /\ videoConnections' = [videoConnections EXCEPT ![cl.peerId] = NoCall]
            /\ UNCHANGED mediaConnections
       ELSE /\ mediaConnections' = [mediaConnections EXCEPT ![cl.peerId] = NoCall]
            /\ UNCHANGED videoConnections
    /\ Observe(Op("call-close", cl.peerId), <<>>,
               <<Event(IF cl.kind = "video" THEN "video-ended" ELSE "audio-ended",
                       [peerId |-> cl.peerId])>>)
    /\ UNCHANGED <<localAudioStream, localVideoStream, isStreamingVideo,
                   acquiring, liveStreams>>
    /\ UNCHANGED <<netVars, joinVars, initVars, lateOpens, busVars>>
    /\ UNCHANGED <<connectCalls, delays, everOpened, everErrored>>

\* ---------------------------------------------------------------- disconnect

\* The 'peer-disconnected' events of the conn.close() calls of disconnect().
RECURSIVE CloseEvents(_)
CloseEvents(peers) ==
    IF peers = {} THEN <<>>
    ELSE LET p == CHOOSE q \in peers : TRUE
             conn == connections[p]
         IN  (IF conn # NoHandle /\ IsOpen(conn)
              THEN <<Event("peer-disconnected", [peerId |-> p])>> ELSE <<>>)
             \o CloseEvents(peers \ {p})

\* The 'close' listeners of the open calls that peer.destroy() ends and that no
\* stop closed (calls whose map entry another call had replaced).
RECURSIVE DestroyedCallEvents(_)
DestroyedCallEvents(cset) ==
    IF cset = {} THEN <<>>
    ELSE LET c == CHOOSE d \in cset : TRUE
         IN  (IF CallOpen(c)
              THEN <<Event(IF calls[c].kind = "video" THEN "video-ended" ELSE "audio-ended",
                           [peerId |-> calls[c].peerId])>>
              ELSE <<>>)
             \o DestroyedCallEvents(cset \ {c})

\* disconnect(): stopVideoStream(), stopAudioBroadcast(), close and clear the
\* connections, destroy the endpoint (which ends every connection handle and
\* every call it gave out).
Disconnect ==
    LET stopped == CallsIn(videoConnections) \cup CallsIn(mediaConnections) IN
    /\ localVideoStream' = NoStream
    /\ isStreamingVideo' = FALSE
    /\ localAudioStream' = NoStream
    /\ liveStreams' = liveStreams \ {localVideoStream, localAudioStream}
    /\ videoConnections' = [p \in RemotePeers |-> NoCall]
    /\ mediaConnections' = [p \in RemotePeers |-> NoCall]
    /\ calls' = IF peer = "null" THEN CloseCalls(stopped) ELSE CloseCalls(CallIds)
    /\ connections' = [p \in RemotePeers |-> NoHandle]
    /\ peer' = IF peer = "null" THEN peer ELSE "destroyed"
    /\ handles' = [h \in Handles |->
           IF handles[h].kind = "none" THEN handles[h]
           ELSE IF peer # "null" \/ (\E p \in RemotePeers : connections[p] = h /\ IsOpen(h))
                THEN [handles[h] EXCEPT !.st = "closed"]
                ELSE handles[h]]
    /\ Observe(Op("disconnect", NoId), <<>>,
               EndedEvents("video-ended", RemotePeers, videoConnections)
                   \o <<Event("video-stopped", [deviceId |-> deviceId])>>
                   \o EndedEvents("audio-ended", RemotePeers, mediaConnections)
                   \o <<Event("audio-stopped", [deviceId |-> deviceId])>>
                   \o CloseEvents(RemotePeers)
                   \o (IF peer = "null" THEN <<>>
                       ELSE DestroyedCallEvents(CallIds \ stopped)))
    /\ UNCHANGED <<deviceId, isHost, roomId>>
    /\ UNCHANGED joinVars
    /\ UNCHANGED <<connectCalls, delays, everOpened, everErrored>>
    /\ UNCHANGED acquiring
    /\ UNCHANGED <<initVars, lateOpens, busVars>>

\* ---------------------------------------------------------------- specifications

\* The endpoint's life: init(), the 'disconnected' event, disconnect().
NextEndpoint ==
    \/ InitPeer
    \/ PeerDisconnected
    \/ PeerReconnected
    \/ Disconnect

\* The joinRoom sequence up to the opening of its connections: the timers, the
\* 'open' and 'error' events on the handles it created, and createRoom().  What
\* happens to a connection after it opened is in NextSend.
NextJoin ==
    \/ NextEndpoint
    \/ \E hostId \in RemotePeers : JoinRoom(hostId)
    \/ AttemptTimeout
    \/ BackoffFire
    \/ \E h \in OutHandles : ConnOpen(h)
    \/ \E h \in OutHandles : ConnError(h)
    \/ \E u \in Uuids : CreateRoom(u)

SpecJoin == Init /\ [][NextJoin]_vars

\* Inbound connections, the transport events on them, and the send helpers.
NextSend ==
    \/ NextEndpoint
    \/ \E h \in InHandles, p \in RemotePeers, isOpen \in BOOLEAN :
           InboundConnection(h, p, isOpen)
    \/ \E h \in InHandles : ConnOpen(h)
    \/ \E h \in InHandles : ConnError(h)
    \/ \E h \in InHandles : ConnDrop(h)
    \/ \E h \in InHandles : ConnClose(h)
    \/ \E u \in Uuids : CreateRoom(u)
    \/ \E type \in StampedTypes : BroadcastStamped(type)
    \/ \E target \in RemotePeers : BroadcastViewSwitch(target)
    \/ \E target \in RemotePeers : HandleViewSwitch(target)

SpecSend == Init /\ [][NextSend]_vars

\* Chat: inbound connections, the transport events on them, chat messages sent
\* and chat messages received from the peers (built by their broadcastChatMessage).
NextChat ==
    \/ InitPeer
    \/ \E h \in InHandles, p \in RemotePeers, isOpen \in BOOLEAN :
           InboundConnection(h, p, isOpen)
    \/ \E h \in InHandles : ConnOpen(h)
    \/ \E h \in InHandles : ConnDrop(h)
    \/ \E h \in InHandles : ConnClose(h)
    \/ \E m \in Texts, t \in Timestamps : BroadcastChatMessage(m, t)
    \/ \E h \in InHandles, m \in Texts, t \in Timestamps :
           HandleData(h, ChatEnvelope(handles[h].peerId, m, t))

SpecChat == Init /\ [][NextChat]_vars

\* Audio calls: one open inbound connection, the audio broadcast, the audio calls
\* received from the peers (made by their callPeerWithAudio) and the transport
\* events on the calls.
NextAudio ==
    \/ InitPeer
    \/ \E p \in RemotePeers : InboundConnection(FirstInHandle, p, TRUE)
    \/ StartAudioBroadcast
    \/ \E s \in Streams : AudioAcquired(s)
    \/ StopAudioBroadcast
    \/ \E p \in RemotePeers : IncomingCall(p, MetadataOf("audio"))
    \/ \E c \in CallIds : CallAnswered(c)
    \/ \E c \in CallIds : CallStream(c)
    \/ \E c \in CallIds : CallError(c)
    \/ \E c \in CallIds : CallClose(c)

SpecAudio == Init /\ [][NextAudio]_vars

\* Whom the broadcast calls: inbound connections, their loss, and the audio
\* broadcast started and stopped.
NextCallOut ==
    \/ InitPeer
    \/ \E h \in InHandles, p \in RemotePeers : InboundConnection(h, p, TRUE)
    \/ \E h \in InHandles : ConnDrop(h)
    \/ \E h \in InHandles : ConnClose(h)
    \/ StartAudioBroadcast
    \/ \E s \in Streams : AudioAcquired(s)
    \/ StopAudioBroadcast

SpecCallOut == Init /\ [][NextCallOut]_vars

\* Acquisition: open inbound connections, the starts and stops of the audio
\* broadcast and of the video stream, with getUserMedia() granting or refusing.
NextAcquire ==
    \/ InitPeer
    \/ \E h \in InHandles, p \in RemotePeers : InboundConnection(h, p, TRUE)
    \/ StartAudioBroadcast
    \/ \E s \in Streams : AudioAcquired(s)
    \/ AudioDenied
    \/ StopAudioBroadcast
    \/ \E existing \in BOOLEAN : StartVideoStream(existing)
    \/ \E s \in Streams : VideoAcquired(s)
    \/ VideoDenied
    \/ StopVideoStream

SpecAcquire == Init /\ [][NextAcquire]_vars

\* Video on request: one open inbound connection, video-request sent and received,
\* the camera stream shared, the calls received from the connected peer (made by
\* its callPeerWithVideo / callPeerWithAudio) and the transport events on the calls.
NextVideo ==
    \/ InitPeer
    \/ \E p \in RemotePeers : InboundConnection(FirstInHandle, p, TRUE)
    \/ \E p \in RemotePeers : RequestVideoFromPeer(p)
    \/ \E t \in Timestamps :
           HandleData(FirstInHandle,
                      VideoRequestEnvelope(handles[FirstInHandle].peerId, t))
    \/ StartVideoStream(TRUE)
    \/ StopVideoStream
    \/ \E p \in ConnKeys, kind \in Kinds : IncomingCall(p, MetadataOf(kind))
    \/ \E c \in CallIds : CallStream(c)
    \/ \E c \in CallIds : CallClose(c)

SpecVideo == Init /\ [][NextVideo]_vars

\* The transport delivers the stream of every call that stays answered.
FairSpecVideo == SpecVideo /\ \A c \in CallIds : WF_vars(CallStream(c))

\* init() and its retries on an id collision, with the endpoint's later life.
NextInit ==
    \/ InitCall
    \/ EndpointOpen
    \/ \E u \in Uuids : EndpointUnavailableId(u)
    \/ EndpointError
    \/ PeerDisconnected
    \/ PeerReconnected
    \/ Disconnect
    \/ \E h \in InHandles, p \in RemotePeers, isOpen \in BOOLEAN :
           InboundConnection(h, p, isOpen)
    \/ \E u \in Uuids : CreateRoom(u)

SpecInit == Init /\ [][NextInit]_vars

\* Connection setup: the handles of a joinRoom sequence and the inbound ones,
\* their 'open' events, and the 'open' that reaches a handle already set up.
NextSetup ==
    \/ InitPeer
    \/ \E hostId \in RemotePeers : JoinRoom(hostId)
    \/ AttemptTimeout
    \/ BackoffFire
    \/ \E p \in RemotePeers, isOpen \in BOOLEAN :
           InboundConnection(FirstInHandle, p, isOpen)
    \/ \E h \in OutHandles \cup {FirstInHandle} : ConnOpen(h)
    \/ \E h \in OutHandles \cup {FirstInHandle} : OpenRepeated(h)
    \/ ConnDrop(FirstInHandle)
    \/ ConnClose(FirstInHandle)

SpecSetup == Init /\ [][NextSetup]_vars

\* The dispatch of received envelopes: inbound connections and an envelope of
\* every type of the switch, of the keep-alive type and of an unknown type, each
\* as its sender builds it.
NextData ==
    \/ InitPeer
    \/ \E h \in InHandles, p \in RemotePeers, isOpen \in BOOLEAN :
           InboundConnection(h, p, isOpen)
    \/ \E h \in InHandles : ConnOpen(h)
    \/ \E h \in InHandles, t \in Timestamps :
           HandleData(h, DetectionEnvelope(handles[h].peerId, t))
    \/ \E h \in InHandles, t \in Timestamps :
           HandleData(h, AlertEnvelope(handles[h].peerId, t))
    \/ \E h \in InHandles, t \in Timestamps :
           HandleData(h, DeviceInfoEnvelope(handles[h].peerId, t))
    \/ \E h \in InHandles : HandleData(h, HeartbeatEnvelope)
    \/ \E h \in InHandles, target \in RemotePeers, t \in Timestamps :
           HandleData(h, ViewSwitchEnvelope(handles[h].peerId, target, t))
    \/ \E h \in InHandles, m \in Texts, t \in Timestamps :
           HandleData(h, ChatEnvelope(handles[h].peerId, m, t))
    \/ \E h \in InHandles, isActive \in BOOLEAN, t \in Timestamps :
           HandleData(h, WalkieEnvelope(handles[h].peerId, isActive, t))
    \/ \E h \in InHandles, t \in Timestamps :
           HandleData(h, VideoRequestEnvelope(handles[h].peerId, t))
    \/ \E h \in InHandles : HandleData(h, UnknownEnvelope)

SpecData == Init /\ [][NextData]_vars

\* The event bus: on, off, the unsubscribe functions and emit.
NextBus ==
    \/ \E e \in BusEvents, cb \in Callbacks : On(e, cb)
    \/ \E e \in BusEvents, cb \in Callbacks : Off(e, cb)
    \/ \E e \in BusEvents, cb \in Callbacks : Unsubscribe(e, cb)
    \/ \E e \in BusEvents : EmitEvent(e)

SpecBus == Init /\ [][NextBus]_vars

\* The device id over the life of the page and across reloads.
NextIdentity ==
    \/ InitCall
    \/ EndpointOpen
    \/ \E u \in Uuids : EndpointUnavailableId(u)
    \/ EndpointError
    \/ PeerDisconnected
    \/ PeerReconnected
    \/ Disconnect
    \/ \E u \in Uuids : CreateRoom(u)
    \/ \E cleared \in BOOLEAN, u \in Uuids : Restart(cleared, u)

SpecIdentity == Init /\ [][NextIdentity]_vars

\* disconnect() and the callbacks that may be pending when it is called: the
\* timers and the 'open' of a joinRoom sequence, and an audio acquisition.
NextTeardown ==
    \/ InitPeer
    \/ \E p \in RemotePeers : InboundConnection(FirstInHandle, p, TRUE)
    \/ \E hostId \in RemotePeers : JoinRoom(hostId)
    \/ AttemptTimeout
    \/ BackoffFire
    \/ \E h \in OutHandles : ConnOpen(h)
    \/ StartAudioBroadcast
    \/ \E s \in Streams : AudioAcquired(s)
    \/ StopAudioBroadcast
    \/ Disconnect

SpecTeardown == Init /\ [][NextTeardown]_vars

Next ==
    \/ NextJoin
    \/ NextSend
    \/ \E h \in OutHandles : ConnDrop(h)
    \/ \E h \in OutHandles : ConnClose(h)
    \/ NextChat
    \/ NextAudio
    \/ NextAcquire
    \/ NextVideo
    \/ NextInit
    \/ NextSetup
    \/ NextData
    \/ NextBus
    \/ NextIdentity
    \/ NextTeardown

Spec == Init /\ [][Next]_vars

\* ================================================================ claims

\* The joinRoom sequence has run to its end: joinRoom was called and no timer of
\* the sequence is pending.
SequenceOver == joinHost # NoId /\ timer = "none"

\* No handle of the sequence has fired 'open' or 'error'.
NeverAnswered == ~everOpened /\ ~everErrored

\* An attempt found the endpoint absent, destroyed or disconnected (or got no
\* handle) and rejected before its timer was set.
EndpointRefused ==
    \E k \in Attempts : promise[k] \in {"rejNotInit", "rejDisconnected", "rejNoConn"}

\* The delays of claim C1: baseDelay * 2^(k-1) for k = 1 .. n.
ExpectedDelays(n) == [k \in 1..n |-> RETRY_BASE_DELAY_MS * (2 ^ (k - 1))]

C2_Original ==
    promise[1] = "rejExhausted"
        => \A h \in OutHandles : connections[joinHost] # h

\* C3: once 'open' has fired on a handle of the sequence, no 'connecting' or
\* 'retrying' progress event is emitted and peer.connect is not called again.
C3_Original ==
    [][everOpened =>
          /\ connectCalls' = connectCalls
          /\ \A i \in (Len(progress) + 1)..Len(progress') :
                 progress'[i].data.status = "connected"]_vars

\* The progress events of a sequence whose every attempt timed out.
ProgressOfSilentTarget ==
    <<ProgressEvent("connecting", 1), ProgressEvent("retrying", 2),
      ProgressEvent("connecting", 2), ProgressEvent("retrying", 3),
      ProgressEvent("connecting", 3)>>

\* C4, as stated: a join that was rejected after three silent attempts has
\* emitted exactly three connection-progress events, with attempts 1, 2, 3.
C4_Original ==
    (promise[1] = "rejExhausted" /\ NeverAnswered)
        => /\ Len(progress) = 3
           /\ \A i \in 1..3 : progress[i].data.attempt = i

\* C4, amended: while no handle has answered, the progress events emitted so far
\* are a prefix of connecting(1), retrying(2), connecting(2), retrying(3),
\* connecting(3); a join rejected after three silent attempts has emitted exactly
\* these five (its three 'connecting' events carry attempts 1, 2, 3), and none
\* is added after the rejection.
C4_Amended ==
    /\ NeverAnswered =>
           /\ Len(progress) <= 5
           /\ progress = SubSeq(ProgressOfSilentTarget, 1, Len(progress))
    /\ (promise[1] = "rejExhausted" /\ NeverAnswered) =>
           /\ progress = ProgressOfSilentTarget
           /\ SelectSeq(progress, LAMBDA e : e.data.status = "connecting")
                  = <<ProgressEvent("connecting", 1), ProgressEvent("connecting", 2),
                      ProgressEvent("connecting", 3)>>

\* The caller has seen the five events and then the rejection.
C4_Witness ==
    /\ promise[1] = "rejExhausted" /\ NeverAnswered
    /\ Len(progress) = 5
    /\ lastOp.name = "attempt-timeout"

\* C5: once 'error' has fired on a handle of the sequence, the sequence starts
\* no further connect attempt.
C5_Original ==
    [][everErrored => connectCalls' = connectCalls]_vars

\* C6: a broadcast sends exactly once on every registered connection that is
\* open and on no other handle (so it sends nothing when none is open), and every
\* send carries the helper's message type.
SendsTo(h) == Len(SelectSeq(lastSent, LAMBDA m : m.to = h))
Registered(h) == \E p \in RemotePeers : connections[p] = h
BroadcastRan ==
    \/ \E type \in StampedTypes : lastOp.name = HelperOf(type)
    \/ lastOp.name = "broadcastViewSwitch" /\ isHost
C6_BroadcastOpenOnly ==
    BroadcastRan =>
        /\ \A h \in Handles :
               SendsTo(h) = IF Registered(h) /\ handles[h].st = "open" THEN 1 ELSE 0
        /\ \A i \in 1..Len(lastSent) :
               \/ lastOp.name = "broadcastViewSwitch" /\ lastSent[i].type = "view-switch"
               \/ /\ lastOp.name # "broadcastViewSwitch"
                  /\ lastSent[i].type \in StampedTypes
                  /\ lastOp.name = HelperOf(lastSent[i].type)

\* A broadcast with one registered connection open and another one not open.
C6_Witness ==
    /\ BroadcastRan
    /\ \E h \in Handles : Registered(h) /\ handles[h].st = "open" /\ SendsTo(h) = 1
    /\ \E h \in Handles : Registered(h) /\ handles[h].st # "open" /\ SendsTo(h) = 0

\* C7: broadcastViewSwitch on a device that is not host sends nothing, emits
\* nothing and changes no state.
C7_NonHostViewSwitch ==
    [][(lastOp'.name = "broadcastViewSwitch" /\ ~isHost)
          => /\ lastSent' = <<>>
             /\ lastEmit' = <<>>
             /\ UNCHANGED <<netVars, joinVars, histVars>>]_vars

\* A non-host with an open registered connection has called broadcastViewSwitch.
C7_Witness ==
    /\ lastOp.name = "broadcastViewSwitch"
    /\ ~isHost
    /\ \E h \in Handles : Registered(h) /\ handles[h].st = "open"

\* C8: requestVideoFromPeer sends video-request only on a device that is host.
C8_Original ==
    (lastOp.name = "requestVideoFromPeer" /\ lastSent # <<>>) => isHost

\* C9: the step that resolves joinRoom's promise leaves isHost false and roomId
\* equal to hostId.
C9_Original ==
    [][(promise[1] = "pending" /\ promise'[1] = "resolved")
          => (isHost' = FALSE /\ roomId' = joinHost)]_vars

\* C10: createRoom sets isHost, returns the device's own id as roomId and emits
\* room-created with that roomId.
C10_Original ==
    lastOp.name = "createRoom"
        => /\ isHost
           /\ lastOp.ret = deviceId
           /\ roomId = lastOp.ret
           /\ lastEmit = <<Event("room-created", [roomId |-> lastOp.ret, deviceId |-> deviceId])>>

\* C11: broadcastChatMessage(text) emits, before it returns, exactly one event:
\* chat-message with isLocal = true, peerId = the own device id and message =
\* text, whatever the connections are.
C11_LocalEcho ==
    lastOp.name = "broadcastChatMessage" =>
        /\ Len(lastEmit) = 1
        /\ lastEmit[1].ev = "chat-message"
        /\ lastEmit[1].data.isLocal = TRUE
        /\ lastEmit[1].data.peerId = deviceId
        /\ lastEmit[1].data.message = lastOp.arg

\* broadcastChatMessage ran with no open connection to send on, one registered
\* connection being not open.
C11_Witness ==
    /\ lastOp.name = "broadcastChatMessage"
    /\ lastSent = <<>>
    /\ \E h \in Handles : Registered(h) /\ handles[h].st # "open"
    /\ Len(lastEmit) = 1

\* A chat envelope of a peer's broadcastChatMessage was received.
ChatReceived == lastOp.name = "data" /\ lastOp.arg.type = "chat-message"

\* C12, as stated: the chat-message event emitted for a received chat envelope
\* has peerId = the sender's id, message = the text and isLocal = false.
C12_Original ==
    ChatReceived =>
        /\ Len(lastEmit) = 1
        /\ lastEmit[1].data.peerId = lastOp.from
        /\ lastEmit[1].data.message = lastOp.arg.data.message
        /\ "isLocal" \in DOMAIN lastEmit[1].data
        /\ lastEmit[1].data.isLocal = FALSE

\* C12, amended: the receiver emits exactly one chat-message event, whose
\* payload is {peerId: the sender's id (conn.peer), message, timestamp: the
\* sender's} and has no isLocal field.
C12_Amended ==
    ChatReceived =>
        lastEmit = <<Event("chat-message",
                           [peerId |-> lastOp.from,
                            message |-> lastOp.arg.data.message,
                            timestamp |-> lastOp.arg.data.timestamp])>>

\* A chat envelope sent by the peer of an open connection was received.
C12_Witness ==
    /\ ChatReceived
    /\ lastOp.arg.data.sourceDevice = lastOp.from
    /\ lastOp.from \in RemotePeers
    /\ Len(lastEmit) = 1

\* The calls of a kind with a peer that were started or answered and not closed.
LiveCalls(kind, p) ==
    {c \in CallIds : calls[c].kind = kind /\ calls[c].peerId = p
                     /\ calls[c].st \in {"ringing", "live", "streaming"}}

\* C13: a stopAudioBroadcast() step leaves localAudioStream null with the tracks
\* of the stream it held stopped, the audio call map empty, and every call that
\* was in the map closed.
C13_StopAudioReleases ==
    [][lastOp'.name = "stopAudioBroadcast" =>
          /\ localAudioStream' = NoStream
          /\ localAudioStream \notin liveStreams'
          /\ \A p \in RemotePeers : mediaConnections'[p] = NoCall
          /\ \A p \in RemotePeers :
                 mediaConnections[p] # NoCall =>
                     calls'[mediaConnections[p]].st \notin {"ringing", "live", "streaming"}]_vars

\* stopAudioBroadcast ran while an audio call was open: its 'audio-ended' was
\* emitted before 'audio-stopped', and nothing is left.
C13_Witness ==
    /\ lastOp.name = "stopAudioBroadcast"
    /\ Len(lastEmit) >= 2
    /\ lastEmit[1].ev = "audio-ended"
    /\ localAudioStream = NoStream
    /\ \A p \in RemotePeers : mediaConnections[p] = NoCall

\* C14: at most one live audio call and at most one live video call per peer.
C14_Original ==
    \A kind \in Kinds, p \in RemotePeers : Cardinality(LiveCalls(kind, p)) <= 1

\* The peers that hold a connection that was set up and is open.
OpenPeers ==
    {p \in RemotePeers :
        \E h \in Handles : handles[h].setup /\ handles[h].st = "open"
                           /\ handles[h].peerId = p}

\* C15: when startAudioBroadcast() has succeeded, an audio call was made to
\* exactly the peers that hold an open connection, each registered in the audio
\* call map.  (Stated for the moments when no connection is half-closed: every
\* connection is either open or has delivered its 'close'.)
C15_Original ==
    (/\ lastOp.name = "audio-acquired"
     /\ \A h \in Handles : handles[h].st # "dropped")
        => /\ lastOp.called = OpenPeers
           /\ \A p \in OpenPeers : mediaConnections[p] # NoCall

\* C16: an 'error' on a media call emits exactly the error event of its kind,
\* carrying {peerId, error}.
C16_Original ==
    lastOp.name = "call-error" =>
        lastEmit = <<Event(IF calls[lastOp.ret].kind = "video" THEN "video-error"
                           ELSE "audio-error",
                           [peerId |-> calls[lastOp.ret].peerId, error |-> "err"])>>

\* C17: the steps of a start whose acquisition fails - the call up to the await
\* and the rejection - make no call and change none of localAudioStream,
\* localVideoStream, isStreamingVideo and the two call maps; the rejection emits
\* one error event of its kind.
C17_AcquisitionFailure ==
    [][/\ lastOp'.name \in {"startAudioBroadcast", "startVideoStream",
                            "audio-denied", "video-denied"} =>
              UNCHANGED <<localAudioStream, localVideoStream, isStreamingVideo,
                          mediaConnections, videoConnections, calls, liveStreams>>
       /\ lastOp'.name = "audio-denied" =>
              /\ Len(lastEmit') = 1 /\ lastEmit'[1].ev = "audio-error"
              /\ ~acquiring'["audio"]
       /\ lastOp'.name = "video-denied" =>
              /\ Len(lastEmit') = 1 /\ lastEmit'[1].ev = "video-error"
              /\ ~acquiring'["video"]]_vars

\* The camera was refused while a peer was connected and the microphone held:
\* what was held is kept and nobody was called for video.
C17_Witness ==
    /\ lastOp.name = "video-denied"
    /\ ConnKeys # {}
    /\ localAudioStream # NoStream
    /\ localVideoStream = NoStream
    /\ ~isStreamingVideo
    /\ \A p \in RemotePeers : videoConnections[p] = NoCall

\* Call c was received as a video call and answered; its stream is due.
VideoCallAwaited(c) ==
    calls[c].kind = "video" /\ calls[c].dir = "in" /\ calls[c].st = "live"

C19_Original ==
    (lastOp.name = "endpoint-unavailable-id" /\ lastOp.ret >= 2)
        => (initPromise[1] = "rejected" /\ creations <= 2)

SetupRan(h) ==
    \E i \in 1..Len(lastSent') :
        lastSent'[i].to = h /\ lastSent'[i].type = "device-info"

\* C21: setupConnection runs exactly once per handle given to handleConnection:
\* a step runs it only for a handle that was not set up, and then registers the
\* handle, emits one peer-connected for its peer and sends device-info on it; and
\* every handle that handleConnection holds open has been set up.
C21_SetupOnce ==
    [][/\ \A h \in Handles :
              SetupRan(h) =>
                  /\ ~handles[h].setup
                  /\ handles'[h].setup
                  /\ connections'[handles'[h].peerId] = h
                  /\ lastSent' = <<[to |-> h, type |-> "device-info"]>>
                  /\ SelectSeq(lastEmit', LAMBDA e : e.ev = "peer-connected")
                         = <<Event("peer-connected", [peerId |-> handles'[h].peerId])>>
       /\ \A h \in Handles :
              (handles'[h].setup /\ ~handles[h].setup) => SetupRan(h)
       /\ \A h \in Handles :
              (handles'[h].reg /\ handles'[h].st = "open") => handles'[h].setup]_vars

\* 'open' reached the listener of a handle that was open and set up already, on
\* an inbound and on an outbound handle, and nothing was repeated.
C21_Witness ==
    /\ lastOp.name = "open-listener"
    /\ lastSent = <<>> /\ lastEmit = <<>>
    /\ \E h \in OutHandles : h \in lateOpens /\ handles[h].setup
    /\ \E h \in InHandles : h \in lateOpens /\ handles[h].setup

\* C22: handleData emits, for an envelope received from peer P, exactly one event
\* named by the type table with P as peerId; nothing for heartbeat; and for any
\* other type one 'message' event with P, the raw type and the raw data.
C22_DispatchTable ==
    lastOp.name = "data" =>
        LET t == lastOp.arg.type
            named == t \in {"detection", "threat-alert", "device-info", "chat-message",
                            "walkie-status", "view-switch", "video-request"}
            expected ==
                CASE t = "detection" -> "remote-detection"
                  [] t = "threat-alert" -> "remote-alert"
                  [] OTHER -> t
        IN  /\ named => /\ Len(lastEmit) = 1
                        /\ lastEmit[1].ev = expected
                        /\ lastEmit[1].data.peerId = lastOp.from
            /\ t = "heartbeat" => lastEmit = <<>>
            /\ (~named /\ t # "heartbeat") =>
                   lastEmit = <<Event("message", [peerId |-> lastOp.from, type |-> t,
                                                  data |-> lastOp.arg.data])>>

\* An envelope of a type outside the switch has been received and republished.
C22_Witness ==
    /\ lastOp.name = "data"
    /\ lastOp.arg.type = "ping"
    /\ Len(lastEmit) = 1
    /\ lastEmit[1].ev = "message"

\* C23: a step of emit(e) calls the callbacks registered for e, each once, in the
\* order of their registration, and no other; on(e, cb) registers cb after the
\* callbacks registered before it (a callback registered already keeps its
\* place); off(e, cb) and the function returned by on(e, cb) remove cb and leave
\* the others and their order; a callback that is not registered for e stays so
\* until the next on(e, cb), hence no later emit calls it.
C23_EmitOrder ==
    [][/\ lastOp'.name = "emit" =>
              /\ callbacksRun' = listeners[lastOp'.arg]
              /\ \A i, j \in 1..Len(callbacksRun') :
                     callbacksRun'[i] = callbacksRun'[j] => i = j
              /\ listeners' = listeners
       /\ lastOp'.name = "on" =>
              LET e == lastOp'.arg
                  cb == lastOp'.ret
              IN  /\ cb \in Members(listeners'[e])
                  /\ SetDelete(listeners'[e], cb) = SetDelete(listeners[e], cb)
                  /\ cb \notin Members(listeners[e]) =>
                         listeners'[e][Len(listeners'[e])] = cb
                  /\ cb \in Members(listeners[e]) => listeners'[e] = listeners[e]
                  /\ \A f \in BusEvents \ {e} : listeners'[f] = listeners[f]
       /\ lastOp'.name \in {"off", "unsubscribe"} =>
              LET e == lastOp'.arg
                  cb == lastOp'.ret
              IN  /\ cb \notin Members(listeners'[e])
                  /\ listeners'[e] = SetDelete(listeners[e], cb)
                  /\ \A f \in BusEvents \ {e} : listeners'[f] = listeners[f]
       /\ \A e \in BusEvents, cb \in Callbacks :
              (cb \notin Members(listeners[e]) /\ cb \in Members(listeners'[e]))
                  => (lastOp'.name = "on" /\ lastOp'.arg = e /\ lastOp'.ret = cb)]_vars

\* An emit has called two callbacks, the one registered again after its removal
\* last, while a callback removed by its unsubscribe function and a callback of
\* the other event were not called.
C23_Witness ==
    /\ lastOp.name = "emit"
    /\ lastOp.arg = "chat-message"
    /\ callbacksRun = <<"cb2", "cb1">>
    /\ <<"chat-message", "cb3">> \in unsubscribers
    /\ listeners["peer-connected"] # <<>>

\* C24: after every step localStorage holds the in-memory device id; a reload
\* that finds an id stored takes it unchanged, one that finds none stores the id
\* it creates; otherwise the id changes only in the unavailable-id listener,
\* which has stored the new id when it creates the next endpoint.
C24_StoredIdIsDeviceId ==
    [][/\ storage' = deviceId'
       /\ lastOp'.name = "constructor" =>
              /\ lastOp'.arg # NoId => deviceId' = lastOp'.arg
              /\ lastOp'.arg = NoId => deviceId' # NoId
       /\ (deviceId' # deviceId /\ lastOp'.name # "constructor") =>
              /\ lastOp'.name = "endpoint-unavailable-id"
              /\ creations' = creations + 1]_vars

\* The id was replaced after a collision and a reload took the replacement.
C24_Witness ==
    /\ lastOp.name = "constructor"
    /\ lastOp.arg # NoId
    /\ deviceId = lastOp.arg
    /\ deviceId # DeviceIdOf(OwnUuid)
    /\ storage = deviceId

\* The promise joinRoom returned to its caller has been rejected.
JoinRejected ==
    promise[1] \in {"rejNotInit", "rejDisconnected", "rejNoConn", "rejExhausted", "rejError"}

\* C25, as stated: the promise joinRoom returned settles once, and once it is
\* rejected the sequence makes no further peer.connect call and registers no
\* connection.
C25_Original ==
    [][/\ promise[1] \notin {"none", "pending"} => promise'[1] = promise[1]
       /\ JoinRejected =>
              /\ connectCalls' = connectCalls
              /\ \A p \in RemotePeers :
                     connections'[p] \in {connections[p], NoHandle}]_vars

\* C26, as stated: connections has an entry for every peer with which some
\* handle has completed setup and is still open.
C26_Original ==
    \A p \in OpenPeers : connections[p] # NoHandle

\* The map of the calls of a kind.
CallMap(kind) == IF kind = "video" THEN videoConnections ELSE mediaConnections

\* C27, as stated: the 'close' of a call that is no longer the one registered
\* for its peer (a newer call of the kind with the peer has replaced it) leaves
\* the map of its kind as it was.
C27_Original ==
    [][\A c \in CallIds :
           (/\ lastOp'.name = "call-close"
            /\ calls[c].kind \in Kinds
            /\ calls'[c].kind = "none"
            /\ CallMap(calls[c].kind)[calls[c].peerId] # c)
               => /\ mediaConnections' = mediaConnections
                  /\ videoConnections' = videoConnections]_vars

\* C28, as stated: when stopAudioBroadcast() was the last of the two to be called
\* and the acquisition that was pending at that call then settles, the device
\* holds no audio stream, the acquired stream has no running track, and no audio
\* call made by the device is live.
C28_Original ==
    [][(lastOp.name = "stopAudioBroadcast" /\ lastOp'.name = "audio-acquired") =>
           /\ localAudioStream' = NoStream
           /\ lastOp'.ret \notin liveStreams'
           /\ \A c \in CallIds :
                  ~(calls'[c].kind = "audio" /\ calls'[c].dir = "out")]_vars

\* C29, as stated: a callback that was pending when disconnect() was called
\* (here: the one that runs next) leaves connections and both call maps empty
\* and both local streams null.
C29_Original ==
    [][(/\ lastOp.name = "disconnect"
        /\ lastOp'.name \in {"attempt-timeout", "retry", "conn-open", "audio-acquired"})
           => /\ \A p \in RemotePeers :
                     /\ connections'[p] = NoHandle
                     /\ mediaConnections'[p] = NoCall
                     /\ videoConnections'[p] = NoCall
              /\ localAudioStream' = NoStream
              /\ localVideoStream' = NoStream]_vars

\* C30: a joinRoom body (the call or a retry) that finds the endpoint absent,
\* destroyed or disconnected rejects its promise in the same step, calls no
\* peer.connect, emits nothing, leaves no timer pending, and leaves connections,
\* the handles, roomId and isHost as they were.
C30_RefusedAtOnce ==
    [][(/\ lastOp'.name \in {"joinRoom", "retry"}
        /\ peer \in {"null", "destroyed", "disconnected"})
           => /\ promise'[attempt'] \in {"rejNotInit", "rejDisconnected"}
              /\ connectCalls' = connectCalls
              /\ lastEmit' = <<>>
              /\ progress' = progress
              /\ timer' = "none"
              /\ connections' = connections
              /\ handles' = handles
              /\ roomId' = roomId
              /\ isHost' = isHost]_vars

\* A retry has found the endpoint disconnected and the caller's promise is
\* rejected with a single connect call made.
C30_Witness ==
    /\ lastOp.name = "retry"
    /\ attempt = 2
    /\ promise[2] = "rejDisconnected"
    /\ promise[1] = "rejDisconnected"
    /\ connectCalls = 1
    /\ timer = "none"

====
